---- MODULE Spec2Model ----
(***************************************************************************)
(* Flow-sentinel: the ingestion service (src/backend/app.py) and the        *)
(* dashboard's day query (src/frontend/app.py).                             *)
(*                                                                          *)
(* Ingestion service.  Threads: the lifespan (main) thread, the daemon      *)
(* worker thread, the scheduler's job thread, the HTTP handlers.  Shared    *)
(* state: the time-series store (its tables and rows), the global ILP       *)
(* sender and its buffer, the Loki log stream.  Time is a clock of ticks,   *)
(* TicksPerDay ticks to a UTC day; tick 0 of a day is its midnight.         *)
(***************************************************************************)
EXTENDS Integers, Sequences, FiniteSets

\* ---------------------------------------------------------------- bounds
\* Instants of the clock per UTC day.
TicksPerDay == 2
\* The last instant of the clock: the second instant of the ninth day.
MaxClock == 17
\* Iterations of the worker's loop.
MaxTicks == 2
\* Calls of GET /event/{msg}.
MaxEvents == 1

\* ------------------------------------------------------ program constants
\* "ts < now() - 7d"
RetentionDays == 7

\* Draws of normalvariate(50, 15).
Vals == {50, 65}
\* Path parameters of GET /event/{msg}.
Msgs == {"a", "b"}

VARIABLES
    clock,        \* wall clock, in ticks
    storeUp,      \* the store accepts connections
    everUp,       \* history: the store has been up at some time
    tables,       \* names of the tables that exist in the store
    walBypass,    \* tables set to BYPASS WAL
    metrics,      \* rows of table metrics, in insertion order: [ts, val]
    pulse,        \* rows of table pulse: [ts, status]
    events,       \* rows of the event relation: [ts, message]
    loki,         \* records sent to the logger's handlers by log_event
    senderState,  \* quest_sender: "new", "open", "closed"
    buffer,       \* quest_sender's pending rows: <<table, ts, value>>
    lifespanPc,   \* position of lifespan()
    dbReady,      \* init_db has returned through its break
    retried,      \* init_db has caught an exception and gone round its loop
    schedRunning, \* the BackgroundScheduler is started and not shut down
    jobPending,   \* the cron trigger fired and daily_cleanup has not run yet
    fired,        \* the cron trigger has fired at the present instant
    workerPc,     \* position of worker()
    workerNow,    \* worker's local "now"
    workerVal,    \* worker's local "val"
    ticks,        \* loop iterations the worker has begun
    workerCalls,  \* history: row()/flush() calls the worker has made
    closedCalls,  \* history: worker calls made on a closed sender
    midTickClose, \* history: the sender was closed between a row() and its flush()
    eventCalls,   \* history: completed calls of GET /event/{msg}
    \* the dashboard (src/frontend/app.py); its timestamps are in units of
    \* 1/SubPerSec second since the start of day 0, UTC
    storeRows,    \* rows of table metrics as the dashboard's queries find them
    userTz,       \* user_tz_name
    selectedDate, \* st.session_state.selected_date: <<>> (None) or <<day number>>
    dfProd,       \* df_prod: the buckets [ts, hourly_val] of the last query
    totalProd,    \* total_prod of the last run, 0 in the zero state
    shownFor      \* <<day, zone>> the figures on screen were computed for, or <<>>

vars == <<clock, storeUp, everUp, tables, walBypass, metrics, pulse, events, loki,
          senderState, buffer, lifespanPc, dbReady, retried, schedRunning,
          jobPending, fired, workerPc, workerNow, workerVal, ticks,
          workerCalls, closedCalls, midTickClose, eventCalls,
          storeRows, userTz, selectedDate, dfProd, totalProd, shownFor>>

storeVars == <<tables, walBypass, metrics, pulse, events>>
senderVars == <<senderState, buffer>>
lifeVars == <<lifespanPc, dbReady, retried>>
schedVars == <<schedRunning, jobPending, fired>>
workerVars == <<workerPc, workerNow, workerVal, ticks, workerCalls, closedCalls>>
httpVars == <<loki, eventCalls>>
dashVars == <<storeRows, userTz, selectedDate, dfProd, totalProd, shownFor>>

\* ------------------------------------------------------------ the store
\* A day partition is named by the timestamp of its first instant.
PartitionOf(ts) == (ts \div TicksPerDay) * TicksPerDay

\* ALTER TABLE t DROP PARTITION WHERE ts < horizon: the filter is evaluated on
\* each partition's timestamp, and a partition that matches goes as a whole.
DropPartitionWhere(rows, horizon) ==
    SelectSeq(rows, LAMBDA r : ~(PartitionOf(r.ts) < horizon))

\* The row that a buffered entry <<table, ts, value>> becomes in its table.
RowOf(e) ==
    IF e[1] = "metrics"
    THEN [ts |-> e[2], val |-> e[3]]
    ELSE [ts |-> e[2], status |-> e[3]]

RECURSIVE RowsFor(_, _)
\* The rows of buffer `buf` addressed to table `t`, in order.
RowsFor(buf, t) ==
    IF buf = <<>> THEN <<>>
    ELSE LET h == Head(buf)
             rest == RowsFor(Tail(buf), t)
         IN IF h[1] = t THEN <<RowOf(h)>> \o rest ELSE rest

BufferTables(buf) == {buf[i][1] : i \in DOMAIN buf}

\* The store receives a flushed buffer: ILP creates a table on its first row.
Ingest(buf) ==
    /\ tables' = tables \cup BufferTables(buf)
    /\ metrics' = metrics \o RowsFor(buf, "metrics")
    /\ pulse' = pulse \o RowsFor(buf, "pulse")
    /\ UNCHANGED <<walBypass, events>>

\* ---------------------------------------------------------- environment
\* The process runs until lifespan raises at startup or the server has exited;
\* the model follows the store and the clock no further than that.
ProcessAlive == lifespanPc \notin {"failed", "exited"}

\* A thread that is at a statement which does not wait: the statements of
\* lifespan after init_db and on shutdown, and the worker's row/row/flush.
Prompt ==
    \/ lifespanPc \in {"enter_sender", "start_sched", "start_worker",
                        "exit_sender", "stopped"}
    \/ workerPc \in {"loop", "row_pulse", "flush"}

\* Time passes.  Nothing reads the clock before init_db has returned, so the
\* clock starts at the instant of the day at which it returns.  The clock's
\* instants are far apart next to the statements that do not wait, to the
\* worker's two-second sleep and to the delay between the cron trigger and the
\* job's statement: none of these is overtaken by more than one instant.
ClockTick ==
    /\ ProcessAlive
    /\ dbReady
    /\ clock < MaxClock
    /\ ~Prompt
    /\ ~(workerPc = "sleep" /\ ticks < MaxTicks /\ clock > workerNow)
    /\ ~(jobPending /\ ~fired)
    /\ clock' = clock + 1
    /\ fired' = FALSE
    /\ UNCHANGED <<storeUp, everUp, storeVars, senderVars, lifeVars, schedRunning,
                   jobPending, workerVars, midTickClose, httpVars, dashVars>>

\* The store goes down or comes (back) up; its tables and rows persist.
StoreFlip ==
    /\ ProcessAlive
    /\ storeUp' = ~storeUp
    /\ everUp' = (everUp \/ storeUp')
    /\ UNCHANGED <<clock, storeVars, senderVars, lifeVars, schedVars,
                   workerVars, midTickClose, httpVars, dashVars>>

\* ------------------------------------------------------------- init_db
\* One iteration of the while loop whose connect and statements succeed.
InitDbOk ==
    /\ lifespanPc = "init_db"
    /\ storeUp
    /\ tables' = tables \cup {"metrics"}
    /\ walBypass' = walBypass \cup {"metrics"}
    /\ dbReady' = TRUE
    /\ lifespanPc' = "enter_sender"
    /\ UNCHANGED <<clock, storeUp, everUp, metrics, pulse, events, senderVars, retried,
                   schedVars, workerVars, midTickClose, httpVars, dashVars>>

\* An init_db with a maximum attempt count: the second failure is raised.
InitDbFailGiveUp ==
    /\ lifespanPc = "init_db"
    /\ ~storeUp
    /\ IF ~retried
       THEN /\ retried' = TRUE
            /\ lifespanPc' = lifespanPc
       ELSE /\ retried' = retried
            /\ lifespanPc' = "failed"
    /\ UNCHANGED <<clock, storeUp, everUp, storeVars, senderVars, dbReady,
                   schedVars, workerVars, midTickClose, httpVars, dashVars>>

\* One iteration whose connect fails: the exception is caught, logged, and the
\* loop sleeps and goes round again.
InitDbFail ==
    /\ lifespanPc = "init_db"
    /\ ~storeUp
    /\ retried' = TRUE
    /\ UNCHANGED <<clock, storeUp, everUp, storeVars, senderVars, lifespanPc,
                   dbReady, schedVars, workerVars, midTickClose, httpVars, dashVars>>

\* ------------------------------------------------------------ lifespan
envVars == <<clock, storeUp, everUp>>

\* "with quest_sender" placed ahead of init_db.
EnterSenderEarly ==
    /\ \/ lifespanPc = "enter_sender"
       \/ lifespanPc = "init_db" /\ senderState = "new"
    /\ IF storeUp
       THEN /\ senderState' = "open"
            /\ lifespanPc' = IF lifespanPc = "init_db" THEN "init_db" ELSE "start_sched"
       ELSE /\ senderState' = senderState
            /\ lifespanPc' = "failed"
    /\ UNCHANGED <<envVars, storeVars, buffer, dbReady, retried, schedVars,
                   workerVars, midTickClose, httpVars, dashVars>>

\* "with quest_sender:" -- __enter__ connects; a refused connection raises out
\* of lifespan and the application does not start.
LifespanEnterSender ==
    /\ lifespanPc = "enter_sender"
    /\ IF storeUp
       THEN /\ senderState' = "open"
            /\ lifespanPc' = "start_sched"
       ELSE /\ senderState' = senderState
            /\ lifespanPc' = "failed"
    /\ UNCHANGED <<envVars, storeVars, buffer, dbReady, retried, schedVars,
                   workerVars, midTickClose, httpVars, dashVars>>

\* scheduler = BackgroundScheduler(); add_job(daily_cleanup, cron 00:00); start()
LifespanStartScheduler ==
    /\ lifespanPc = "start_sched"
    /\ schedRunning' = TRUE
    /\ lifespanPc' = "start_worker"
    /\ UNCHANGED <<envVars, storeVars, senderVars, dbReady, retried, jobPending,
                   fired, workerVars, midTickClose, httpVars, dashVars>>

\* threading.Thread(target=worker, daemon=True).start(), then yield
LifespanStartWorker ==
    /\ lifespanPc = "start_worker"
    /\ workerPc' = "loop"
    /\ lifespanPc' = "serving"
    /\ UNCHANGED <<envVars, storeVars, senderVars, dbReady, retried, schedVars,
                   workerNow, workerVal, ticks, workerCalls, closedCalls,
                   midTickClose, httpVars, dashVars>>

\* Shutdown: scheduler.shutdown() waits for a running job, then stops the scheduler.
LifespanShutdownScheduler ==
    /\ lifespanPc = "serving"
    /\ ~jobPending
    /\ schedRunning' = FALSE
    /\ lifespanPc' = "exit_sender"
    /\ UNCHANGED <<envVars, storeVars, senderVars, dbReady, retried, jobPending,
                   fired, workerVars, midTickClose, httpVars, dashVars>>

\* Leaving "with quest_sender": __exit__ flushes what is pending and closes.  A
\* failed flush raises out of lifespan; the sender is closed either way.
LifespanExitSender ==
    /\ lifespanPc = "exit_sender"
    /\ IF storeUp /\ buffer # <<>>
       THEN Ingest(buffer)
       ELSE UNCHANGED storeVars
    /\ buffer' = <<>>
    /\ senderState' = "closed"
    /\ midTickClose' = (midTickClose \/ workerPc \in {"row_pulse", "flush"})
    /\ lifespanPc' = "stopped"
    /\ UNCHANGED <<envVars, dbReady, retried, schedVars, workerVars, httpVars,
                   dashVars>>

\* The process ends after lifespan has returned; the daemon thread is abandoned.
ProcessExit ==
    /\ lifespanPc = "stopped"
    /\ lifespanPc' = "exited"
    /\ UNCHANGED <<envVars, storeVars, senderVars, dbReady, retried, schedVars,
                   workerVars, midTickClose, httpVars, dashVars>>

\* -------------------------------------------------------------- worker
\* One more row()/flush() call by the worker, on a closed sender or not.
Called ==
    /\ workerCalls' = workerCalls + 1
    /\ closedCalls' = closedCalls + (IF senderState = "closed" THEN 1 ELSE 0)

\* now = TimestampNanos.now(); val = normalvariate(50, 15);
\* quest_sender.row("metrics", columns={"val": val}, at=now)
\* row() appends to the sender's buffer, which is sent by flush() and when the
\* sender is closed.  A closed sender raises; the except clause logs and the
\* thread ends.
WorkerRowMetrics ==
    /\ ProcessAlive
    /\ workerPc = "loop"
    /\ \E v \in Vals :
          /\ workerVal' = v
          /\ workerNow' = clock
          /\ IF senderState = "open"
             THEN /\ buffer' = Append(buffer, <<"metrics", clock, v>>)
                  /\ workerPc' = "row_pulse"
             ELSE /\ buffer' = buffer
                  /\ workerPc' = "crashed"
    /\ ticks' = ticks + 1
    /\ Called
    /\ UNCHANGED <<envVars, storeVars, senderState, lifeVars, schedVars,
                   midTickClose, httpVars, dashVars>>

\* quest_sender.row("pulse", columns={"status": 1}, at=now)
WorkerRowPulse ==
    /\ ProcessAlive
    /\ workerPc = "row_pulse"
    /\ IF senderState = "open"
       THEN /\ buffer' = Append(buffer, <<"pulse", workerNow, 1>>)
            /\ workerPc' = "flush"
       ELSE /\ buffer' = buffer
            /\ workerPc' = "crashed"
    /\ Called
    /\ UNCHANGED <<envVars, storeVars, senderState, lifeVars, schedVars,
                   workerNow, workerVal, ticks, midTickClose, httpVars, dashVars>>

\* quest_sender.flush(): the buffer goes to the store, or the call raises
\* (closed sender, or store unreachable: the client then clears the buffer).
WorkerFlush ==
    /\ ProcessAlive
    /\ workerPc = "flush"
    /\ IF senderState = "open" /\ storeUp
       THEN /\ Ingest(buffer)
            /\ buffer' = <<>>
            /\ workerPc' = "sleep"
       ELSE /\ UNCHANGED storeVars
            /\ buffer' = IF senderState = "open" THEN <<>> ELSE buffer
            /\ workerPc' = "crashed"
    /\ Called
    /\ UNCHANGED <<envVars, senderState, lifeVars, schedVars, workerNow,
                   workerVal, ticks, midTickClose, httpVars, dashVars>>

\* A worker whose handler sits inside the loop: it goes on after an exception.
WorkerSleepOrRetry ==
    /\ ProcessAlive
    /\ workerPc \in {"sleep", "crashed"}
    /\ clock > workerNow
    /\ ticks < MaxTicks
    /\ workerPc' = "loop"
    /\ UNCHANGED <<envVars, storeVars, senderVars, lifeVars, schedVars, workerNow,
                   workerVal, ticks, workerCalls, closedCalls, midTickClose,
                   httpVars, dashVars>>

\* time.sleep(2) returns, at a later time, and the loop goes round.
WorkerSleep ==
    /\ ProcessAlive
    /\ workerPc = "sleep"
    /\ clock > workerNow
    /\ ticks < MaxTicks
    /\ workerPc' = "loop"
    /\ UNCHANGED <<envVars, storeVars, senderVars, lifeVars, schedVars, workerNow,
                   workerVal, ticks, workerCalls, closedCalls, midTickClose,
                   httpVars, dashVars>>

\* ----------------------------------------------------------- scheduler
\* The cron trigger (hour=0, minute=0) fires at a midnight, once.
CronFire ==
    /\ ProcessAlive
    /\ schedRunning
    /\ ~jobPending
    /\ clock % TicksPerDay = 0
    /\ ~fired
    /\ jobPending' = TRUE
    /\ fired' = TRUE
    /\ UNCHANGED <<envVars, storeVars, senderVars, lifeVars, schedRunning,
                   workerVars, midTickClose, httpVars, dashVars>>

\* now() of the statement, read when the statement runs.
Horizon == clock - RetentionDays * TicksPerDay

\* daily_cleanup(): connect, "ALTER TABLE metrics DROP PARTITION WHERE
\* ts < now() - 7d"; any exception is logged.
daily_cleanup ==
    /\ ProcessAlive
    /\ jobPending
    /\ jobPending' = FALSE
    /\ IF storeUp /\ "metrics" \in tables
       THEN metrics' = DropPartitionWhere(metrics, Horizon)
       ELSE metrics' = metrics
    /\ UNCHANGED <<envVars, tables, walBypass, pulse, events, senderVars, lifeVars,
                   schedRunning, fired, workerVars, midTickClose, httpVars, dashVars>>

\* ---------------------------------------------------------------- HTTP
\* GET /event/{msg}: logger.info("EVENT: msg", ...) reaches the console and
\* Loki handlers; the reply is {"status": "captured", ..., "destination": "loki"}.
log_event(msg) ==
    /\ lifespanPc = "serving"
    /\ eventCalls < MaxEvents
    /\ loki' = Append(loki, msg)
    /\ eventCalls' = eventCalls + 1
    /\ UNCHANGED <<envVars, storeVars, senderVars, lifeVars, schedVars, workerVars,
                   midTickClose, dashVars>>

\* ----------------------------------------------------------- the system
\* The store is fresh, or holds the tables of an earlier run; it may be down.
BackendInit(phases, ups, schemas) ==
    /\ clock \in phases
    /\ storeUp \in ups
    /\ everUp = storeUp
    /\ tables \in schemas
    /\ walBypass = IF "metrics" \in tables THEN {"metrics"} ELSE {}
    /\ metrics = <<>>
    /\ pulse = <<>>
    /\ events = <<>>
    /\ loki = <<>>
    /\ senderState = "new"
    /\ buffer = <<>>
    /\ lifespanPc = "init_db"
    /\ dbReady = FALSE
    /\ retried = FALSE
    /\ schedRunning = FALSE
    /\ jobPending = FALSE
    /\ fired = FALSE
    /\ workerPc = "idle"
    /\ workerNow = 0
    /\ workerVal = 0
    /\ ticks = 0
    /\ workerCalls = 0
    /\ closedCalls = 0
    /\ midTickClose = FALSE
    /\ eventCalls = 0

\* No dashboard session.
DashIdle ==
    /\ storeRows = {}
    /\ userTz = "UTC"
    /\ selectedDate = <<>>
    /\ dfProd = {}
    /\ totalProd = 0
    /\ shownFor = <<>>

Init ==
    /\ BackendInit(0 .. (TicksPerDay - 1), BOOLEAN, {{}, {"metrics", "pulse"}})
    /\ DashIdle

Next ==
    \/ ClockTick
    \/ StoreFlip
    \/ InitDbOk
    \/ InitDbFail
    \/ LifespanEnterSender
    \/ LifespanStartScheduler
    \/ LifespanStartWorker
    \/ LifespanShutdownScheduler
    \/ LifespanExitSender
    \/ ProcessExit
    \/ WorkerRowMetrics
    \/ WorkerRowPulse
    \/ WorkerFlush
    \/ WorkerSleep
    \/ CronFire
    \/ daily_cleanup
    \/ \E msg \in Msgs : log_event(msg)

Spec == Init /\ [][Next]_vars

\* The loop of init_db does not stop going round, and a thread that can run does.
SpecLive == Spec /\ WF_vars(InitDbOk) /\ WF_vars(InitDbFail)

\* ===================================================================
\* The dashboard's day query (src/frontend/app.py)
\* ===================================================================

\* Resolution of the dashboard's timestamps: units per second.
SubPerSec == 1000
HourLen == 60 * 60 * SubPerSec
DayLen == 24 * HourLen

\* Days the calendar offers.
Dates == {1, 2}

\* pytz zones of the selectbox, with the UTC offset localize() gives them on
\* the days of Dates (none of which has a transition).
UtcOffset(tz) ==
    CASE tz = "UTC" -> 0
      [] tz = "Europe/Paris" -> HourLen
      [] tz = "America/New_York" -> 0 - 5 * HourLen

Zones == {"UTC", "Europe/Paris", "America/New_York"}

\* Rows the store may hold: on day 1 at 00:00:00, 12:00:00, 22:59:59.5,
\* 23:00:00, 23:59:59 and 23:59:59.5, and on day 2 at 00:00:00 (UTC).
Candidates ==
    { [ts |-> DayLen, val |-> 1],
      [ts |-> DayLen + 12 * HourLen, val |-> 2],
      [ts |-> DayLen + 23 * HourLen - (SubPerSec \div 2), val |-> 4],
      [ts |-> DayLen + 23 * HourLen, val |-> 8],
      [ts |-> 2 * DayLen - SubPerSec, val |-> 16],
      [ts |-> 2 * DayLen - (SubPerSec \div 2), val |-> 32],
      [ts |-> 2 * DayLen, val |-> 64] }

RECURSIVE SumOf(_, _)
\* The sum of field `f` over the records of the finite set `rows`.
SumOf(rows, f) ==
    IF rows = {} THEN 0
    ELSE LET r == CHOOSE x \in rows : TRUE
         IN r[f] + SumOf(rows \ {r}, f)

\* user_tz.localize(naive).astimezone(pytz.UTC)
LocalToUtc(naive, tz) == naive - UtcOffset(tz)

\* datetime.combine(date_obj, datetime.min.time()): 00:00:00
MinTime(date) == date * DayLen

\* datetime.combine(date_obj, datetime.max.time()): 23:59:59.999999, the last
\* instant of the day that the resolution has
MaxTime(date) == date * DayLen + DayLen - 1

\* strftime('%Y-%m-%dT%H:%M:%S') and the store's reading of that literal: the
\* instant at the start of the second
StrfSeconds(t) == (t \div SubPerSec) * SubPerSec

\* timestamp_floor('1h', ts)
HourFloor(t) == (t \div HourLen) * HourLen

\* The query: one row per hour that has readings with
\* ts BETWEEN start AND end (both ends included), carrying the sum of their values.
RangeQuery(rows, start, end) ==
    LET hit == {r \in rows : start <= r.ts /\ r.ts <= end}
    IN { [ts |-> h, hourly_val |-> SumOf({r \in hit : HourFloor(r.ts) = h}, "val")] :
            h \in {HourFloor(r.ts) : r \in hit} }

\* The sidebar's selectbox.
SelectTimezone(tz) ==
    /\ userTz' = tz
    /\ tz # userTz
    /\ UNCHANGED <<storeRows, selectedDate, dfProd, totalProd, shownFor>>
    /\ UNCHANGED <<envVars, storeVars, senderVars, lifeVars, schedVars, workerVars,
                   midTickClose, httpVars>>

\* A click on a calendar day: new_date differs from selected_date, is stored,
\* and the script is run again.
SelectDate(d) ==
    /\ <<d>> # selectedDate
    /\ selectedDate' = <<d>>
    /\ UNCHANGED <<storeRows, userTz, dfProd, totalProd, shownFor>>
    /\ UNCHANGED <<envVars, storeVars, senderVars, lifeVars, schedVars, workerVars,
                   midTickClose, httpVars>>

\* A run of the script with a date selected: the window, the query, and
\* total_prod = df_prod["hourly_val"].sum(), or the zero state on no rows.
RenderDay ==
    /\ selectedDate # <<>>
    /\ LET date_obj == selectedDate[1]
           start_utc == LocalToUtc(MinTime(date_obj), userTz)
           end_utc == LocalToUtc(MaxTime(date_obj), userTz)
           df == RangeQuery(storeRows, StrfSeconds(start_utc), StrfSeconds(end_utc))
       IN /\ dfProd' = df
          /\ totalProd' = SumOf(df, "hourly_val")
    /\ shownFor' = <<selectedDate[1], userTz>>
    /\ UNCHANGED <<storeRows, userTz, selectedDate>>
    /\ UNCHANGED <<envVars, storeVars, senderVars, lifeVars, schedVars, workerVars,
                   midTickClose, httpVars>>

\* A dashboard session over a store that holds any of the candidate rows.
DashInit ==
    /\ BackendInit({0}, {TRUE}, {{"metrics", "pulse"}})
    /\ storeRows \in SUBSET Candidates
    /\ userTz \in Zones
    /\ selectedDate = <<>>
    /\ dfProd = {}
    /\ totalProd = 0
    /\ shownFor = <<>>

DashNext ==
    \/ \E tz \in Zones : SelectTimezone(tz)
    \/ \E d \in Dates : SelectDate(d)
    \/ RenderDay

SpecDash == DashInit /\ [][DashNext]_vars

\* ===================================================================
\* Properties
\* ===================================================================

\* Number of rows of `rows` that carry timestamp `t`.
CountAt(rows, t) == Cardinality({i \in DOMAIN rows : rows[i].ts = t})

\* C1: whenever the worker is between ticks or has ended on an exception, each
\* metric row of the store has exactly one pulse row with the same timestamp
\* and each pulse row exactly one metric row.
C1_MetricPulsePaired ==
    workerPc \in {"sleep", "crashed"} =>
        /\ \A i \in DOMAIN metrics : CountAt(pulse, metrics[i].ts) = 1
        /\ \A j \in DOMAIN pulse : CountAt(metrics, pulse[j].ts) = 1

\* A step of daily_cleanup whose statement ran without an exception.
CleanupSucceeds ==
    /\ jobPending /\ ~jobPending'
    /\ storeUp
    /\ "metrics" \in tables

\* C2: after a successful run of daily_cleanup no row older than now - 7 days
\* is left in the metric, pulse or event relation.
C2_NoRowOlderThanHorizon ==
    [][CleanupSucceeds =>
          /\ \A i \in DOMAIN metrics' : metrics'[i].ts >= Horizon
          /\ \A i \in DOMAIN pulse' : pulse'[i].ts >= Horizon
          /\ \A i \in DOMAIN events' : events'[i].ts >= Horizon]_vars

\* C3: a successful run of daily_cleanup removes no row whose timestamp is at
\* or after now - 7 days, and running the statement again at once changes nothing.
C3_NewerRowsUntouched ==
    [][CleanupSucceeds =>
          /\ \A i \in DOMAIN metrics :
                metrics[i].ts >= Horizon =>
                    CountAt(metrics', metrics[i].ts) = CountAt(metrics, metrics[i].ts)
          /\ pulse' = pulse
          /\ events' = events
          /\ DropPartitionWhere(metrics', Horizon) = metrics']_vars

\* C4: each completed call of GET /event/{msg} adds exactly one row to the
\* event relation, with msg as its message and the call time as its timestamp,
\* and changes no other relation.
C4_EventRowWritten ==
    [][eventCalls' = eventCalls + 1 =>
          /\ Len(events') = Len(events) + 1
          /\ SubSeq(events', 1, Len(events)) = events
          /\ events'[Len(events')].message = loki'[Len(loki')]
          /\ events'[Len(events')].ts = clock
          /\ metrics' = metrics
          /\ pulse' = pulse]_vars

\* Something that lifespan starts after init_db has begun to exist or to act.
Started ==
    \/ senderState # "new"
    \/ schedRunning
    \/ workerPc # "idle"
    \/ workerCalls > 0
    \/ lifespanPc \in {"serving", "exit_sender", "stopped", "exited"}

\* C5: the sender is opened, the scheduler started, the worker started and the
\* service serving only after init_db has returned through its break, which
\* takes a store that has been available.
C5_StartupGate == Started => (dbReady /\ everUp)

\* C5 witness: the service serves, the worker has written, and init_db had to
\* wait for the store.
C5_Witness ==
    /\ lifespanPc = "serving"
    /\ retried
    /\ schedRunning
    /\ Len(metrics) > 0

\* C6: once init_db has returned, the metrics, pulse and events relations all exist.
C6_AllRelationsExist == dbReady => {"metrics", "pulse", "events"} \subseteq tables

InitReturned == lifespanPc # "init_db"

\* The rows of local day `d` in zone `tz`: from local midnight up to the next.
RowsOfLocalDay(d, tz) ==
    {r \in storeRows : /\ LocalToUtc(d * DayLen, tz) <= r.ts
                       /\ r.ts < LocalToUtc((d + 1) * DayLen, tz)}

\* C7: the total on screen for a day and zone is the sum of the values of the
\* metric rows of that local day.
C7_TotalIsDaySum ==
    shownFor # <<>> =>
        totalProd = SumOf(RowsOfLocalDay(shownFor[1], shownFor[2]), "val")

\* C8: init_db leaves its loop only through a successful attempt, never by an
\* exception or by giving up, so not while the store has never been available;
\* and if the store is available from some time on, init_db returns.
C8_InitRetriesUntilSuccess ==
    /\ [](InitReturned => (dbReady /\ everUp))
    /\ (<>[]storeUp) => <>InitReturned

\* C8 witness: init_db has returned after at least one failed attempt.
C8_Witness == InitReturned /\ dbReady /\ retried

\* C9: once the worker has ended on an exception it stays ended and makes no
\* further row() or flush() call; the step on which it ends leaves lifespan,
\* the scheduler and its job as they are.
C9_WorkerFailStop ==
    [][/\ workerPc = "crashed" =>
              /\ workerPc' = "crashed"
              /\ workerCalls' = workerCalls
              /\ ticks' = ticks
       /\ (workerPc # "crashed" /\ workerPc' = "crashed") =>
              UNCHANGED <<lifespanPc, schedRunning, jobPending, fired, loki, eventCalls>>
      ]_vars

\* C9 witness: the worker ended on an exception with iterations still to run,
\* time has passed, the store is reachable, the service and scheduler run on.
C9_Witness ==
    /\ workerPc = "crashed"
    /\ ticks < MaxTicks
    /\ clock > workerNow
    /\ storeUp
    /\ lifespanPc = "serving"
    /\ schedRunning

\* C10: the sender is never closed by lifespan between a row() of the worker
\* and the flush() that follows it, and the worker never calls row() or
\* flush() on a closed sender.
C10_SingleSenderAccessor == ~midTickClose /\ closedCalls = 0

====
